---------------------------- MODULE Spec2Model ----------------------------
(***************************************************************************)
(* A model of flask_weixin.Weixin (src/flask_weixin.py): the signature     *)
(* validator, the XML message decoder, the handler registry, the default   *)
(* view function and the outbound send.                                    *)
(*                                                                         *)
(* Python strings are sequences of one-character strings, so that sorting, *)
(* joining, int() and str() are computed as Python computes them.  None is *)
(* the one-element sequence <<"None">>, which is no string (its element is *)
(* not a character).                                                       *)
(***************************************************************************)
EXTENDS Integers, Sequences, FiniteSets

VARIABLES
    configured,   \* init_app has run: self.sender and self.expires_in exist
    token,        \* self.token
    sender,       \* self.sender
    expires_in,   \* self.expires_in
    registry,     \* self._registry: a function from its keys to their values
    wrappers,     \* keys of the decorators __call__ has returned
    clock,        \* time.time(), in half seconds
    posts,        \* the HTTP requests _send has made, in order
    called,       \* history: key -> the value of the last registration call
    stored,       \* history: key -> the value of the last call that stored
    last          \* the last operation called, its arguments and its outcome

vars == <<configured, token, sender, expires_in, registry, wrappers, clock,
          posts, called, stored, last>>

---------------------------------------------------------------------------
(* Bounds of the model.                                                    *)

\* the clock advances at most this many half seconds
MaxTicks == 2

---------------------------------------------------------------------------
(* Python values.                                                          *)

None == <<"None">>

\* The characters the model's strings use, in code point order.
Alphabet == <<" ", "*", "+", "-",
              "0", "1", "2", "3", "4", "5", "6", "7", "8", "9",
              "N", "_",
              "a", "b", "c", "d", "e", "f", "g", "h", "i", "j", "k", "l", "m",
              "n", "o", "p", "q", "r", "s", "t", "u", "v", "w", "x", "y", "z">>

Ord(c) == CHOOSE i \in 1..Len(Alphabet) : Alphabet[i] = c

Digits == <<"0", "1", "2", "3", "4", "5", "6", "7", "8", "9">>

IsDigit(c) == \E i \in 1..10 : Digits[i] = c

DigitVal(c) == (CHOOSE i \in 1..10 : Digits[i] = c) - 1

\* Python's truth value of a string or None: None and '' are false.
Truthy(v) == v # None /\ v # <<>>

\* str(v) of a string or None.
PyStr(v) == IF v = None THEN <<"N", "o", "n", "e">> ELSE v

\* a < b for two strings: lexicographic by code point, a proper prefix first.
RECURSIVE StrLess(_, _)
StrLess(a, b) ==
    IF b = <<>> THEN FALSE
    ELSE IF a = <<>> THEN TRUE
    ELSE IF Head(a) = Head(b) THEN StrLess(Tail(a), Tail(b))
    ELSE Ord(Head(a)) < Ord(Head(b))

\* v inserted into the sorted sequence s, after the elements equal to it.
RECURSIVE Insert(_, _)
Insert(v, s) ==
    IF s = <<>> THEN <<v>>
    ELSE IF StrLess(v, Head(s)) THEN <<v>> \o s
    ELSE <<Head(s)>> \o Insert(v, Tail(s))

\* sorted(values) of a list of strings.
RECURSIVE Sorted(_)
Sorted(values) ==
    IF values = <<>> THEN <<>>
    ELSE Insert(values[Len(values)], Sorted(SubSeq(values, 1, Len(values) - 1)))

\* ''.join(values).
RECURSIVE Join(_)
Join(values) ==
    IF values = <<>> THEN <<>> ELSE Head(values) \o Join(Tail(values))

\* s.strip(): int() ignores the white space around its literal.
RECURSIVE LStrip(_)
LStrip(s) ==
    IF s # <<>> /\ Head(s) = " " THEN LStrip(Tail(s)) ELSE s

RECURSIVE RStrip(_)
RStrip(s) ==
    IF s # <<>> /\ s[Len(s)] = " " THEN RStrip(SubSeq(s, 1, Len(s) - 1)) ELSE s

\* The value of a sequence of decimal digits.
RECURSIVE DecVal(_)
DecVal(s) ==
    IF s = <<>> THEN 0
    ELSE 10 * DecVal(SubSeq(s, 1, Len(s) - 1)) + DigitVal(s[Len(s)])

\* int(v) of a string or None: [ok |-> FALSE] is TypeError (None) or
\* ValueError (no decimal literal); the literal is an optional sign and one
\* or more digits, with white space around it ignored.
IntParse(v) ==
    IF v = None THEN [ok |-> FALSE, val |-> 0]
    ELSE LET t == RStrip(LStrip(v))
             signed == t # <<>> /\ Head(t) \in {"+", "-"}
             ds == IF signed THEN Tail(t) ELSE t
         IN  IF ds # <<>> /\ \A i \in 1..Len(ds) : IsDigit(ds[i])
             THEN [ok |-> TRUE,
                   val |-> IF signed /\ Head(t) = "-" THEN 0 - DecVal(ds)
                           ELSE DecVal(ds)]
             ELSE [ok |-> FALSE, val |-> 0]

\* str(n) of a natural number.
RECURSIVE NatToStr(_)
NatToStr(n) ==
    IF n < 10 THEN <<Digits[n + 1]>>
    ELSE NatToStr(n \div 10) \o <<Digits[(n % 10) + 1]>>

\* str(n) of an int.
IntToStr(n) == IF n < 0 THEN <<"-">> \o NatToStr(0 - n) ELSE NatToStr(n)

\* hashlib.sha1(s).hexdigest().  SHA-1 is modelled as collision free: the
\* digest of s is s under a tag, and is no string the model uses elsewhere.
Sha1Hex(s) == <<"sha1:">> \o s

---------------------------------------------------------------------------
(* Weixin.validate.                                                        *)

\* The digest validate compares the signature with (lines 98-100), from the
\* three values as they are at line 98.
SignatureOf(tok, timestampStr, nonce) ==
    Sha1Hex(Join(Sorted(<<tok, timestampStr, PyStr(nonce)>>)))

\* A variant of validate that answers false for an absent token.
ValidateFailsClosed(tok, expires, now, signature, timestamp, nonce) ==
    IF ~Truthy(tok) THEN [raised |-> "", value |-> FALSE]
    ELSE IF expires # 0 THEN
        LET parsed == IntParse(timestamp)
        IN  IF ~parsed.ok THEN [raised |-> "", value |-> FALSE]
            ELSE IF now - 2 * parsed.val < 0 THEN [raised |-> "", value |-> FALSE]
            ELSE IF now - 2 * parsed.val > 2 * expires
                 THEN [raised |-> "", value |-> FALSE]
            ELSE [raised |-> "",
                  value |-> signature = SignatureOf(tok, IntToStr(parsed.val), nonce)]
    ELSE [raised |-> "",
          value |-> signature = SignatureOf(tok, PyStr(timestamp), nonce)]

\* validate(signature, timestamp, nonce) with time.time() = now / 2:
\* [raised |-> the exception's class or "", value |-> the value returned].
ValidateOutcome(tok, expires, now, signature, timestamp, nonce) ==
    IF ~Truthy(tok) THEN [raised |-> "RuntimeError", value |-> FALSE]
    ELSE IF expires # 0 THEN
        LET parsed == IntParse(timestamp)
        IN  IF ~parsed.ok THEN [raised |-> "", value |-> FALSE]
            ELSE IF now - 2 * parsed.val < 0 THEN [raised |-> "", value |-> FALSE]
            ELSE IF now - 2 * parsed.val > 2 * expires
                 THEN [raised |-> "", value |-> FALSE]
            \* timestamp is the int by now: str(timestamp) is its decimal form
            ELSE [raised |-> "",
                  value |-> signature = SignatureOf(tok, IntToStr(parsed.val), nonce)]
    ELSE [raised |-> "",
          value |-> signature = SignatureOf(tok, PyStr(timestamp), nonce)]

---------------------------------------------------------------------------
(* Weixin.parse and Weixin.format.                                         *)

\* A dict is a function from its keys; d.get(k) is None for a missing key.
Get(d, k) == IF k \in DOMAIN d THEN d[k] ELSE None

\* d.update(e).
Update(d, e) ==
    [k \in DOMAIN d \cup DOMAIN e |-> IF k \in DOMAIN e THEN e[k] ELSE d[k]]

EmptyDict == [k \in {} |-> None]

\* raw of parse (lines 108-111): the text of the root's last child of each tag.
RawOf(children) ==
    [t \in {children[i].tag : i \in DOMAIN children} |->
        children[CHOOSE i \in DOMAIN children :
                    /\ children[i].tag = t
                    /\ \A j \in DOMAIN children : children[j].tag = t => j <= i].text]

\* int(kwargs.get(k, 0)): 0 for a missing key, else int() of the text.
IntOrZero(d, k) ==
    IF k \in DOMAIN d THEN IntParse(d[k]) ELSE [ok |-> TRUE, val |-> 0]

\* The exception int() raises for a value it does not take.
IntError(v) == IF v = None THEN "TypeError" ELSE "ValueError"

\* datetime.fromtimestamp(timestamp / 1000.0), as seconds and microseconds.
FromMillis(timestamp) ==
    [seconds |-> timestamp \div 1000, microseconds |-> (timestamp % 1000) * 1000]

\* The dict format returns, once int(CreateTime) has given timestamp.
Format(kwargs, timestamp) ==
    [id        |-> Get(kwargs, "MsgId"),
     timestamp |-> timestamp,
     receiver  |-> Get(kwargs, "ToUserName"),
     sender    |-> Get(kwargs, "FromUserName"),
     type      |-> Get(kwargs, "MsgType"),
     time      |-> FromMillis(timestamp)]

parse_text(raw) == [content |-> Get(raw, "Content")]

parse_image(raw) == [picurl |-> Get(raw, "PicUrl")]

\* parse_location once int(Scale) has given scale.
parse_location(raw, scale) ==
    [location_x |-> Get(raw, "Location_X"),
     location_y |-> Get(raw, "Location_Y"),
     scale      |-> scale,
     label      |-> Get(raw, "Label")]

parse_link(raw) ==
    [title       |-> Get(raw, "Title"),
     description |-> Get(raw, "Description"),
     url         |-> Get(raw, "url")]

parse_event(raw) ==
    [event     |-> Get(raw, "Event"),
     event_key |-> Get(raw, "EventKey"),
     ticket    |-> Get(raw, "Ticket"),
     latitude  |-> Get(raw, "Latitude"),
     longitude |-> Get(raw, "Longitude"),
     precision |-> Get(raw, "Precision")]

parse_invalid_type(raw) == EmptyDict

\* The message types, as strings.
T_text == <<"t", "e", "x", "t">>
T_image == <<"i", "m", "a", "g", "e">>
T_location == <<"l", "o", "c", "a", "t", "i", "o", "n">>
T_link == <<"l", "i", "n", "k">>
T_event == <<"e", "v", "e", "n", "t">>
T_invalid_type == <<"i", "n", "v", "a", "l", "i", "d", "_", "t", "y", "p", "e">>
T_foo == <<"f", "o", "o">>

\* The msg_type for which the instance has an attribute parse_<msg_type>.
ParserTypes == {T_text, T_image, T_location, T_link, T_event, T_invalid_type}

\* parse(content): [raised |-> the exception's class or "", value |-> the dict
\* returned].  body.wellformed says whether etree.fromstring accepts the text;
\* body.children are the root's children, each a tag and its text (None for
\* an element without text).
ParseOutcome(body) ==
    IF ~body.wellformed THEN [raised |-> "ParseError", value |-> EmptyDict]
    ELSE
    LET raw == RawOf(body.children)
        ts == IntOrZero(raw, "CreateTime")
    IN  IF ~ts.ok THEN [raised |-> IntError(raw["CreateTime"]), value |-> EmptyDict]
        ELSE
        LET formatted == Format(raw, ts.val)
            msg_type == IF Truthy(formatted.type) THEN formatted.type
                        ELSE T_invalid_type
        IN  \* getattr(self, 'parse_%s' % msg_type) has no default (line 118)
            IF msg_type \notin ParserTypes
            THEN [raised |-> "AttributeError", value |-> EmptyDict]
            ELSE IF msg_type = T_location /\ ~IntOrZero(raw, "Scale").ok
            THEN [raised |-> IntError(raw["Scale"]), value |-> EmptyDict]
            ELSE
            LET parsed ==
                    IF msg_type = T_text THEN parse_text(raw)
                    ELSE IF msg_type = T_image THEN parse_image(raw)
                    ELSE IF msg_type = T_location
                         THEN parse_location(raw, IntOrZero(raw, "Scale").val)
                    ELSE IF msg_type = T_link THEN parse_link(raw)
                    ELSE IF msg_type = T_event THEN parse_event(raw)
                    ELSE parse_invalid_type(raw)
            IN  [raised |-> "", value |-> Update(formatted, parsed)]

---------------------------------------------------------------------------
(* The reply encoders.                                                     *)

\* An XML reply is the record of the values its template's slots hold;
\* '%s' % v is str(v).

\* _shared_reply(username, sender, type) with time.time() = now / 2.
SharedReply(username, sndr, type, now) ==
    [ToUserName   |-> PyStr(username),
     FromUserName |-> PyStr(sndr),
     CreateTime   |-> now \div 2,
     MsgType      |-> type]

T_music == <<"m", "u", "s", "i", "c">>
T_news == <<"n", "e", "w", "s">>

text_reply(username, sndr, content, now) ==
    Update(SharedReply(username, sndr, T_text, now), [Content |-> PyStr(content)])

\* music_reply: values holds the four keys reply reads with kwargs.get.
music_reply(username, sndr, values, now) ==
    Update(SharedReply(username, sndr, T_music, now),
           [Title       |-> PyStr(values.title),
            Description |-> PyStr(values.description),
            MusicUrl    |-> PyStr(values.music_url),
            HQMusicUrl  |-> PyStr(values.hq_music_url)])

news_reply(username, sndr, items, now) ==
    Update(SharedReply(username, sndr, T_news, now),
           [ArticleCount |-> Len(items),
            Articles     |-> [i \in DOMAIN items |->
                                 [Title       |-> PyStr(items[i].title),
                                  Description |-> PyStr(items[i].description),
                                  PicUrl      |-> PyStr(items[i].picurl),
                                  Url         |-> PyStr(items[i].url)]]])

\* reply(username, type, sender, **kwargs):
\* [raised |-> the exception's class or "", value |-> the reply or None].
ReplyOutcome(isConfigured, defaultSender, now, username, type, sndr, kwargs) ==
    IF ~Truthy(sndr) /\ ~isConfigured
    THEN [raised |-> "AttributeError", value |-> None]   \* self.sender is not set
    ELSE
    LET from == IF Truthy(sndr) THEN sndr ELSE defaultSender
    IN  IF ~Truthy(from) THEN [raised |-> "RuntimeError", value |-> None]
        ELSE IF type = T_text
        THEN [raised |-> "",
              value |-> text_reply(username, from,
                                   IF "content" \in DOMAIN kwargs
                                   THEN kwargs["content"] ELSE <<>>, now)]
        ELSE IF type = T_music
        THEN [raised |-> "",
              value |-> music_reply(username, from,
                                    [title        |-> Get(kwargs, "title"),
                                     description  |-> Get(kwargs, "description"),
                                     music_url    |-> Get(kwargs, "music_url"),
                                     hq_music_url |-> Get(kwargs, "hq_music_url")],
                                    now)]
        ELSE IF type = T_news
        THEN [raised |-> "",
              value |-> news_reply(username, from,
                                   IF "articles" \in DOMAIN kwargs
                                   THEN kwargs["articles"] ELSE <<>>, now)]
        ELSE [raised |-> "", value |-> None]

---------------------------------------------------------------------------
(* The registry and Weixin.view_func.                                      *)

\* A value of the registry: a callable (a handler function, named) or a
\* plain string (the literal text of a reply).  NoFunc is func=None.
Callable(name) == [callable |-> TRUE, name |-> name, text |-> <<>>]

Literal(text) == [callable |-> FALSE, name |-> "str", text |-> text]

NoFunc == [callable |-> FALSE, name |-> "None", text |-> <<>>]

\* Python's truth value of a func argument.
FuncTruthy(func) == func.callable \/ (func.name = "str" /\ func.text # <<>>)

\* self._registry[key] = func.
SetItem(reg, key, func) ==
    [k \in DOMAIN reg \cup {key} |-> IF k = key THEN func ELSE reg[k]]

Star == <<"*">>

\* func = 'failed' (line 304): no handler is registered for the message.
Failed == Literal(<<"f", "a", "i", "l", "e", "d">>)

\* A variant of the resolution that tries the wildcard first.
ResolveWildcardFirst(reg, ret) ==
    IF Star \in DOMAIN reg THEN reg[Star]
    ELSE IF ret.type = T_text /\ ret.content \in DOMAIN reg THEN reg[ret.content]
    ELSE Failed

\* The value view_func resolves a decoded message to (lines 299-304).
Resolve(reg, ret) ==
    IF ret.type = T_text /\ ret.content \in DOMAIN reg THEN reg[ret.content]
    ELSE IF Star \in DOMAIN reg THEN reg[Star]
    ELSE Failed

\* func(**ret): what the handler named name returns for the message.
HandlerResult(name, ret) == [handler |-> name, kwargs |-> ret]

\* The outcome of view_func for a request: raised |-> the exception's class
\* or "", status, content_type and body of the response, func |-> the value
\* resolved (NoFunc before line 299), invoked |-> the handlers called.
Raises(exception) ==
    [raised |-> exception, status |-> 0, content_type |-> "", body |-> None,
     func |-> NoFunc, invoked |-> <<>>]

\* return text, 400.
BadRequest(text) ==
    [raised |-> "", status |-> 400, content_type |-> "text/html", body |-> text,
     func |-> NoFunc, invoked |-> <<>>]

\* Lines 299-315: the decoded message ret is resolved and answered.
ViewDispatch(isConfigured, defaultSender, reg, now, ret) ==
    LET func == Resolve(reg, ret)
    IN  IF func.callable
        THEN [raised |-> "", status |-> 200,
              content_type |-> "text/xml; charset=utf-8",
              body |-> HandlerResult(func.name, ret),
              func |-> func, invoked |-> <<func.name>>]
        ELSE
        LET text == ReplyOutcome(isConfigured, defaultSender, now, ret.sender,
                                 T_text, ret.receiver, [content |-> func.text])
        IN  IF text.raised # ""
            THEN [Raises(text.raised) EXCEPT !.func = func]
            ELSE [raised |-> "", status |-> 200,
                  content_type |-> "text/xml; charset=utf-8",
                  body |-> text.value, func |-> func, invoked |-> <<>>]

\* A variant of view_func that decodes the body of a handshake too.
ViewValidatedNoHandshake(isConfigured, defaultSender, reg, now, request) ==
    LET parsed == ParseOutcome(request.data)
    IN  IF parsed.raised # "" THEN BadRequest("invalid")
        ELSE IF "type" \notin DOMAIN parsed.value THEN BadRequest("invalid")
        ELSE ViewDispatch(isConfigured, defaultSender, reg, now, parsed.value)

\* Lines 286-315: view_func once validate has returned true.
ViewValidated(isConfigured, defaultSender, reg, now, request) ==
    IF request.method = "GET"
    THEN [raised |-> "", status |-> 200, content_type |-> "text/html",
          body |-> request.echostr, func |-> NoFunc, invoked |-> <<>>]
    ELSE
    LET parsed == ParseOutcome(request.data)
    IN  IF parsed.raised # "" THEN BadRequest("invalid")
        ELSE IF "type" \notin DOMAIN parsed.value THEN BadRequest("invalid")
        ELSE ViewDispatch(isConfigured, defaultSender, reg, now, parsed.value)

\* view_func() for a request.
ViewOutcome(isConfigured, tok, defaultSender, expires, reg, now, request) ==
    LET valid == ValidateOutcome(tok, expires, now, request.signature,
                                 request.timestamp, request.nonce)
    IN  IF valid.raised # "" THEN Raises(valid.raised)
        ELSE IF ~valid.value THEN BadRequest("signature failed")
        ELSE ViewValidated(isConfigured, defaultSender, reg, now, request)

---------------------------------------------------------------------------
(* Weixin.send.                                                            *)

\* CUSTOM_SEND_URL.format(ACCESS_TOKEN=tok).
SendUrl(tok) ==
    [base |-> "https://api.weixin.qq.com/cgi-bin/message/custom/send",
     access_token |-> tok]

\* _shared_send(to_user, type).
SharedSend(to_user, type) == [to_user |-> to_user, type |-> type]

\* _send(url, data): the name urllib2 is not bound (line 15 imports urlib2), so
\* the call raises before any request is made.
SendRequest(url, data) == [raised |-> "NameError", value |-> None, posted |-> <<>>]

\* text_send(url, to_user, content): its first line calls
\* _shared_reply(to_user, 'text'), which takes three arguments.
TextSend(url, to_user, content) ==
    [raised |-> "TypeError", value |-> None, posted |-> <<>>]

\* send(to_user, type, **kwargs): [raised, value, posted |-> the HTTP requests
\* made, in order].
SendOutcome(tok, to_user, type, kwargs) ==
    IF ~Truthy(tok) THEN [raised |-> "RuntimeError", value |-> None, posted |-> <<>>]
    ELSE IF ~Truthy(to_user)
    THEN [raised |-> "RuntimeError", value |-> None, posted |-> <<>>]
    ELSE IF type = T_text
    THEN TextSend(SendUrl(tok), to_user,
                  IF "content" \in DOMAIN kwargs THEN kwargs["content"] ELSE <<>>)
    ELSE [raised |-> "", value |-> None, posted |-> <<>>]

---------------------------------------------------------------------------
(* The inputs the operations are called with.                              *)

S_tk == <<"t", "k">>
S_zz == <<"z", "z">>
S_gh == <<"g", "h">>
S_u1 == <<"u", "1">>
S_help == <<"h", "e", "l", "p">>
S_other == <<"o", "t", "h", "e", "r">>
S_hi == <<"h", "i">>
S_bad == <<"b", "a", "d">>
S_e1 == <<"e", "1">>
S_7 == <<"7">>
S_100 == <<"1", "0", "0">>

\* WEIXIN_TOKEN, WEIXIN_SENDER and WEIXIN_EXPIRES_IN of a configuration.
Tokens == {None, <<>>, S_tk}

Senders == {None, S_gh}

Windows == {0, 60}

\* time.time() when the instance is made: 100.0 s, in half seconds.
Epoch == 2 * 100

\* timestamp arguments: 39, 40, 41, 100 and 101 in decimal, 41 with a leading
\* zero, with a sign and with a space before it, a word, and None.
Timestamps == {<<"3", "9">>, <<"4", "0">>, <<"4", "1">>, S_100, <<"1", "0", "1">>,
               <<"0", "4", "1">>, <<"+", "4", "1">>, <<" ", "4", "1">>,
               <<"x">>, None}

Nonces == {S_7, None}

\* signature arguments for a timestamp and a nonce: the digest of the three
\* strings under the right and a wrong token, the digest with the timestamp
\* in its decimal form, a word, and None.
Signatures(timestamp, nonce) ==
    {SignatureOf(t, PyStr(timestamp), nonce) : t \in {S_tk, S_zz, <<>>}}
    \cup {SignatureOf(S_tk, IntToStr(IntParse(timestamp).val), nonce)}
    \cup {S_bad, None}

\* A request body: not well-formed XML, or a root element with children.
Malformed == [wellformed |-> FALSE, children |-> <<>>]

Doc(children) == [wellformed |-> TRUE, children |-> children]

\* Absent marks a tag the document does not hold.
Absent == <<"Absent">>

Child(tag, text) == IF text = Absent THEN <<>> ELSE <<[tag |-> tag, text |-> text]>>

Message(to, type, content, createTime, scale) ==
    Doc(Child("ToUserName", to) \o Child("FromUserName", S_u1)
        \o Child("MsgType", type) \o Child("Content", content)
        \o Child("CreateTime", createTime) \o Child("Scale", scale))

MsgTypes == {Absent, None, T_text, T_image, T_location, T_link, T_event,
             T_invalid_type, T_foo}

\* The bodies parse is called with.
DecodeBodies ==
    {Message(to, type, content, createTime, scale) :
        to \in {Absent, S_gh}, type \in MsgTypes, content \in {Absent, S_help},
        createTime \in {Absent, <<"1", "0", "0", "0">>, <<"x">>, None},
        scale \in {Absent, <<"5">>, <<"x">>}}
    \cup {Malformed,
          \* a tag twice: the last one counts
          Doc(Child("MsgType", T_foo) \o Child("MsgType", T_text)
              \o Child("Content", S_other) \o Child("Content", S_help))}

\* The bodies view_func is called with.
ViewBodies ==
    {Message(to, T_text, content, Absent, Absent) :
        to \in {Absent, S_gh}, content \in {Absent, S_help, S_other, Star}}
    \cup {Message(S_gh, type, S_help, Absent, Absent) :
             type \in {Absent, None, T_image, T_invalid_type, T_foo}}
    \cup {Malformed}

\* The requests view_func is called with: the verification handshake, a
\* message delivery, and HEAD, which Flask routes to a view that takes GET.
ViewRequests ==
    {[method |-> "GET", signature |-> sig, timestamp |-> S_100, nonce |-> S_7,
      echostr |-> echo, data |-> Malformed] :
        sig \in {SignatureOf(S_tk, S_100, S_7), S_bad}, echo \in {S_e1, None}}
    \cup {[method |-> "POST", signature |-> sig, timestamp |-> S_100, nonce |-> S_7,
           echostr |-> None, data |-> body] :
             sig \in {SignatureOf(S_tk, S_100, S_7), S_bad}, body \in ViewBodies}
    \cup {[method |-> "HEAD", signature |-> SignatureOf(S_tk, S_100, S_7),
           timestamp |-> S_100, nonce |-> S_7, echostr |-> None, data |-> Malformed]}

\* view_func's requests in Spec: a delivery of the text "help", of another
\* text, and the handshake.
RegistryRequests ==
    {r \in ViewRequests :
        /\ r.signature # S_bad
        /\ r.data \in {Malformed, Message(S_gh, T_text, S_help, Absent, Absent),
                       Message(S_gh, T_text, S_other, Absent, Absent)}
        /\ r.echostr \in {None, S_e1}}

\* The keys and values registered.
Keys == {S_help, Star}

TrueFuncs == {Callable("print_help"), Callable("fallback"), Literal(S_hi)}

Funcs == TrueFuncs \cup {Literal(<<>>)}

\* The arguments of reply.
Article == [title |-> S_hi, description |-> None, picurl |-> S_e1, url |-> S_e1]

ReplyCalls ==
    {[username |-> S_u1, type |-> type, sender |-> sndr, kwargs |-> kwargs] :
        type \in {T_text, T_music, T_news, T_foo}, sndr \in {None, S_gh},
        kwargs \in {EmptyDict, [content |-> S_hi], [title |-> S_hi],
                    [articles |-> <<Article, Article>>]}}

\* The arguments of send.
SendCalls ==
    {[to_user |-> to, type |-> type, kwargs |-> kwargs] :
        to \in {None, <<>>, S_u1}, type \in {T_text, T_news},
        kwargs \in {EmptyDict, [content |-> S_hi]}}

---------------------------------------------------------------------------
(* The state machine.                                                      *)

\* Weixin() (lines 39-44): no token, an empty registry; sender and expires_in
\* are not set before init_app.
Init ==
    /\ configured = FALSE
    /\ token = None
    /\ sender = None
    /\ expires_in = 0
    /\ registry = EmptyDict
    /\ wrappers = {}
    /\ clock = Epoch
    /\ posts = <<>>
    /\ called = EmptyDict
    /\ stored = EmptyDict
    /\ last = [op |-> "init", args |-> <<>>, out |-> <<>>]

\* Time passes.
Tick ==
    /\ clock < Epoch + MaxTicks
    /\ clock' = clock + 1
    /\ UNCHANGED <<configured, token, sender, expires_in, registry, wrappers,
                   posts, called, stored, last>>

\* init_app(app) with the three settings of app.config.
InitApp(tokens, senders, windows) ==
    \E tok \in tokens, sndr \in senders, window \in windows :
        /\ configured' = TRUE
        /\ token' = tok
        /\ sender' = sndr
        /\ expires_in' = window
        /\ last' = [op |-> "init_app",
                    args |-> [token |-> tok, sender |-> sndr, expires_in |-> window],
                    out |-> <<>>]
        /\ UNCHANGED <<registry, wrappers, clock, posts, called, stored>>

\* validate(signature, timestamp, nonce).
Validate(timestamps, nonces) ==
    \E timestamp \in timestamps, nonce \in nonces :
        \E signature \in Signatures(timestamp, nonce) :
            /\ last' = [op |-> "validate",
                        args |-> [signature |-> signature, timestamp |-> timestamp,
                                  nonce |-> nonce],
                        out |-> ValidateOutcome(token, expires_in, clock, signature,
                                                timestamp, nonce)]
            /\ UNCHANGED <<configured, token, sender, expires_in, registry,
                           wrappers, clock, posts, called, stored>>

\* parse(content).
Parse(bodies) ==
    \E body \in bodies :
        /\ last' = [op |-> "parse", args |-> [content |-> body],
                    out |-> ParseOutcome(body)]
        /\ UNCHANGED <<configured, token, sender, expires_in, registry, wrappers,
                       clock, posts, called, stored>>

\* reply(username, type, sender, **kwargs).
Reply(calls) ==
    \E call \in calls :
        /\ last' = [op |-> "reply", args |-> call,
                    out |-> ReplyOutcome(configured, sender, clock, call.username,
                                         call.type, call.sender, call.kwargs)]
        /\ UNCHANGED <<configured, token, sender, expires_in, registry, wrappers,
                       clock, posts, called, stored>>

\* A variant of register that keeps the value a key already has.
RegisterKeepsFirst(reg, key, func) ==
    IF FuncTruthy(func) /\ key \notin DOMAIN reg THEN SetItem(reg, key, func) ELSE reg

\* The registry after register(key, func) (lines 245-249).
RegisterStore(reg, key, func) ==
    IF FuncTruthy(func) THEN SetItem(reg, key, func) ELSE reg

\* register(key, func): func is stored when it is true; otherwise the call
\* returns the decorator of __call__(key).
Register(keys, funcs) ==
    \E key \in keys, func \in funcs :
        /\ registry' = RegisterStore(registry, key, func)
        /\ wrappers' = IF FuncTruthy(func) THEN wrappers ELSE wrappers \cup {key}
        /\ called' = IF func = NoFunc THEN called ELSE SetItem(called, key, func)
        /\ stored' = IF FuncTruthy(func) THEN SetItem(stored, key, func) ELSE stored
        /\ last' = [op |-> "register", args |-> [key |-> key, func |-> func],
                    out |-> <<>>]
        /\ UNCHANGED <<configured, token, sender, expires_in, clock, posts>>

\* weixin(key): __call__ returns a decorator for the key.
Call(keys) ==
    \E key \in keys :
        /\ wrappers' = wrappers \cup {key}
        /\ last' = [op |-> "__call__", args |-> [key |-> key], out |-> <<>>]
        /\ UNCHANGED <<configured, token, sender, expires_in, registry, clock,
                       posts, called, stored>>

\* The registry after wrapper(func) of the decorator for key (line 265).
WrapperStore(reg, key, func) == SetItem(reg, key, func)

\* A decorator returned by register(key) or weixin(key) is applied to func.
Wrapper(funcs) ==
    \E key \in wrappers, func \in funcs :
        /\ registry' = WrapperStore(registry, key, func)
        /\ called' = SetItem(called, key, func)
        /\ stored' = SetItem(stored, key, func)
        /\ last' = [op |-> "wrapper", args |-> [key |-> key, func |-> func],
                    out |-> <<>>]
        /\ UNCHANGED <<configured, token, sender, expires_in, wrappers, clock, posts>>

\* view_func() for a request.
ViewFunc(requests) ==
    \E request \in requests :
        /\ last' = [op |-> "view_func", args |-> request,
                    out |-> ViewOutcome(configured, token, sender, expires_in,
                                        registry, clock, request)]
        /\ UNCHANGED <<configured, token, sender, expires_in, registry, wrappers,
                       clock, posts, called, stored>>

\* send(to_user, type, **kwargs).
Send(calls) ==
    \E call \in calls :
        LET out == SendOutcome(token, call.to_user, call.type, call.kwargs)
        IN  /\ posts' = posts \o out.posted
            /\ last' = [op |-> "send", args |-> call, out |-> out]
            /\ UNCHANGED <<configured, token, sender, expires_in, registry,
                           wrappers, clock, called, stored>>

\* Every operation of an instance: every way to register, and on a
\* configured instance a call of each of the other operations.  The
\* specifications below give one component its full set of inputs.
Next ==
    \/ Tick
    \/ InitApp({S_tk}, {S_gh}, {0})
    \/ Register(Keys, Funcs \cup {NoFunc})
    \/ Call(Keys)
    \/ Wrapper(Funcs)
    \/ ViewFunc(RegistryRequests)
    \/ Validate({S_100}, {S_7})
    \/ Parse({Message(S_gh, T_text, S_help, Absent, Absent)})
    \/ Reply({[username |-> S_u1, type |-> T_text, sender |-> None,
               kwargs |-> [content |-> S_hi]]})
    \/ Send({[to_user |-> S_u1, type |-> T_text, kwargs |-> [content |-> S_hi]]})

Spec == Init /\ [][Next]_vars

\* The signature validator, with its configuration and the clock.
NextValidate ==
    \/ Tick
    \/ InitApp(Tokens, Senders, Windows)
    \/ Validate(Timestamps, Nonces)

SpecValidate == Init /\ [][NextValidate]_vars

\* The message decoder.
NextDecode == Parse(DecodeBodies)

SpecDecode == Init /\ [][NextDecode]_vars

\* The view function, with the configuration and the handlers registered.
NextView ==
    \/ InitApp(Tokens, Senders, Windows)
    \/ Register(Keys, TrueFuncs)
    \/ ViewFunc(ViewRequests)

SpecView == Init /\ [][NextView]_vars

\* The outbound send.
NextSend ==
    \/ InitApp(Tokens, Senders, Windows)
    \/ Send(SendCalls)

SpecSend == Init /\ [][NextSend]_vars

---------------------------------------------------------------------------
(* The claims about the signature validator (SpecValidate).                *)

\* The last operation was validate(signature, timestamp, nonce).
Validated == last.op = "validate"

\* The digest of the documented procedure: the SHA-1 hex digest of the
\* sorted concatenation of the token, the timestamp as a string and the
\* nonce as a string.
DocumentedDigest(tok, timestamp, nonce) ==
    Sha1Hex(Join(Sorted(<<tok, PyStr(timestamp), PyStr(nonce)>>)))

\* The timestamp is an integer and 0 <= now - timestamp <= expires_in.
InWindow(timestamp) ==
    /\ IntParse(timestamp).ok
    /\ clock - 2 * IntParse(timestamp).val >= 0
    /\ clock - 2 * IntParse(timestamp).val <= 2 * expires_in

\* validate returned true.
Accepted == last.out.raised = "" /\ last.out.value = TRUE

\* validate returned false.
Rejected == last.out.raised = "" /\ last.out.value = FALSE

\* C1: with a non-empty token, validate returns true when the signature is
\* the documented digest of the token, the timestamp and the nonce (the
\* window disabled, or the timestamp inside it), and false for every
\* signature that differs from that digest.
C1_ValidateMatchesDocumentedDigest ==
    (Validated /\ Truthy(token)) =>
        LET digest == DocumentedDigest(token, last.args.timestamp, last.args.nonce)
        IN  /\ (last.args.signature = digest
                  /\ (expires_in = 0 \/ InWindow(last.args.timestamp))) => Accepted
            /\ last.args.signature # digest => Rejected

\* C2: with the window enabled, validate returns false for a timestamp that
\* is no integer, that lies in the future or that is older than the window,
\* whatever the signature, and accepts a correctly signed request whose
\* timestamp is inside the window; with expires_in = 0 the age of the
\* timestamp is not checked.
C2_ReplayWindow ==
    (Validated /\ Truthy(token)) =>
        LET signed == last.args.signature =
                        DocumentedDigest(token, last.args.timestamp, last.args.nonce)
        IN  /\ (expires_in > 0 /\ ~InWindow(last.args.timestamp)) => Rejected
            /\ (expires_in > 0 /\ InWindow(last.args.timestamp) /\ signed) => Accepted
            /\ (expires_in = 0 /\ signed) => Accepted

\* C3 as stated: with the token absent (never configured, None or empty),
\* validate returns false for every signature, timestamp and nonce.
C3_AbsentTokenReturnsFalse ==
    (Validated /\ ~Truthy(token)) => Rejected

\* C3 as amended: with the token absent, validate never returns true and
\* never returns false: it raises RuntimeError for every signature,
\* timestamp and nonce.
C3_AbsentTokenRaises ==
    (Validated /\ ~Truthy(token)) =>
        /\ last.out.raised = "RuntimeError"
        /\ ~Accepted
        /\ ~Rejected

\* validate was called on an instance configured with an empty token, with
\* the digest the documented procedure gives for the empty token.
C3_Witness ==
    /\ Validated
    /\ configured
    /\ token = <<>>
    /\ last.args.signature =
          DocumentedDigest(<<>>, last.args.timestamp, last.args.nonce)
    /\ last.out.raised = "RuntimeError"

---------------------------------------------------------------------------
(* The claim about the decoder (SpecDecode).                               *)

EnvelopeKeys == {"id", "timestamp", "receiver", "sender", "type", "time"}

\* C6: decoding a well-formed message whose MsgType is a string other than
\* text, image, location, link and event, or is absent, succeeds and yields
\* a record of type invalid_type with the envelope fields only.
C6_UnknownTypeDecodesAsInvalid ==
    (/\ last.op = "parse"
     /\ last.args.content.wellformed
     /\ IntOrZero(RawOf(last.args.content.children), "CreateTime").ok
     /\ LET raw == RawOf(last.args.content.children)
        IN  \/ "MsgType" \notin DOMAIN raw
            \/ /\ raw["MsgType"] # None
               /\ raw["MsgType"] \notin {T_text, T_image, T_location, T_link, T_event})
    => /\ last.out.raised = ""
       /\ DOMAIN last.out.value = EnvelopeKeys
       /\ last.out.value["type"] = T_invalid_type

---------------------------------------------------------------------------
(* The claims about view_func (SpecView).                                  *)

\* The last operation was view_func, validate returned true for the request,
\* the request is no handshake, and its body was decoded.
Dispatched ==
    /\ last.op = "view_func"
    /\ LET valid == ValidateOutcome(token, expires_in, clock, last.args.signature,
                                    last.args.timestamp, last.args.nonce)
       IN  valid.raised = "" /\ valid.value
    /\ last.args.method # "GET"
    /\ ParseOutcome(last.args.data).raised = ""

\* The message decoded from the last request.
Decoded == ParseOutcome(last.args.data).value

\* The message is a text whose content is a registered key.
KeyMatches(msg) == msg["type"] = T_text /\ msg["content"] \in DOMAIN registry

\* C4: a text message whose content is a registered key resolves to the value
\* at that key, also when '*' is registered; any other message resolves to
\* the value at '*' when '*' is registered, and to notFound otherwise.
C4_ResolutionPriority ==
    Dispatched =>
        /\ KeyMatches(Decoded) => last.out.func = registry[Decoded["content"]]
        /\ (~KeyMatches(Decoded) /\ Star \in DOMAIN registry) =>
               last.out.func = registry[Star]
        /\ (~KeyMatches(Decoded) /\ Star \notin DOMAIN registry) =>
               last.out.func = Failed

\* A text "help" was resolved to the value at "help" with another value at
\* '*', and the handler at "help" was called.
C4_Witness ==
    /\ Dispatched
    /\ Decoded["type"] = T_text
    /\ Decoded["content"] = S_help
    /\ DOMAIN registry = {S_help, Star}
    /\ registry[S_help] = Callable("print_help")
    /\ registry[Star] = Callable("fallback")
    /\ last.out.invoked = <<"print_help">>

\* C7: a validated, decoded request that resolves to no handler does not
\* raise: view_func answers with the fallback text reply, addressed to the
\* sender of the message, also without ToUserName and default sender.
C7_NoHandlerFallbackNeverRaises ==
    (/\ Dispatched
     /\ ~KeyMatches(Decoded)
     /\ Star \notin DOMAIN registry)
    => /\ last.out.raised = ""
       /\ last.out.status = 200
       /\ last.out.invoked = <<>>
       /\ last.out.body["ToUserName"] = PyStr(Decoded["sender"])
       /\ last.out.body["MsgType"] = T_text
       /\ last.out.body["Content"] = <<"f", "a", "i", "l", "e", "d">>

\* C9: a handler is called at most once per request, and only after validate
\* returned true for a request that is no handshake and whose body was
\* decoded; a bad signature gets 400, a validated handshake gets echostr
\* unchanged, a validated request with a malformed body gets 400, and none
\* of the three calls a handler.
C9_HandlerOnlyAfterValidatedDecodedDelivery ==
    last.op = "view_func" =>
        LET valid == ValidateOutcome(token, expires_in, clock, last.args.signature,
                                     last.args.timestamp, last.args.nonce)
            returned == valid.raised = ""
        IN  /\ Len(last.out.invoked) <= 1
            /\ last.out.invoked # <<>> =>
                  /\ Dispatched
                  /\ \E k \in DOMAIN registry :
                        /\ registry[k].callable
                        /\ registry[k].name = last.out.invoked[1]
            /\ (returned /\ ~valid.value) =>
                  /\ last.out.raised = ""
                  /\ last.out.status = 400
                  /\ last.out.invoked = <<>>
            /\ (returned /\ valid.value /\ last.args.method = "GET") =>
                  /\ last.out.raised = ""
                  /\ last.out.status = 200
                  /\ last.out.body = last.args.echostr
                  /\ last.out.invoked = <<>>
            /\ (returned /\ valid.value /\ last.args.method # "GET"
                  /\ ParseOutcome(last.args.data).raised # "") =>
                  /\ last.out.raised = ""
                  /\ last.out.status = 400
                  /\ last.out.invoked = <<>>

\* A validated handshake was answered with its echostr while a wildcard
\* handler was registered.
C9_Witness ==
    /\ last.op = "view_func"
    /\ last.args.method = "GET"
    /\ last.args.echostr = S_e1
    /\ Star \in DOMAIN registry
    /\ registry[Star].callable
    /\ last.out.status = 200
    /\ last.out.body = S_e1

\* C10: a validated delivery whose well-formed body has no usable MsgType
\* (the tag is absent or empty) gets 400, and neither a handler registered
\* at a key nor the wildcard handler is called.
C10_MissingTypeRejected ==
    (/\ last.op = "view_func"
     /\ LET valid == ValidateOutcome(token, expires_in, clock, last.args.signature,
                                     last.args.timestamp, last.args.nonce)
        IN  valid.raised = "" /\ valid.value
     /\ last.args.method = "POST"
     /\ last.args.data.wellformed
     /\ ~Truthy(Get(RawOf(last.args.data.children), "MsgType")))
    => /\ last.out.raised = ""
       /\ last.out.status = 400
       /\ last.out.invoked = <<>>

---------------------------------------------------------------------------
(* The claim about the registry (Spec).                                    *)

\* C5 as stated: the registry maps each key to the value of the most recent
\* registration made for it, and holds exactly the keys ever registered.
C5_LastRegistrationCallWins == registry = called

\* C5 as amended: the registry maps each key to the value of the most recent
\* registration that stored one (register(key, handler) with a true handler,
\* or a decorator applied) and holds exactly the keys so registered; no
\* other operation changes it.
C5_LastStoredRegistrationWins == registry = stored

\* A request was handled by a registered handler after register was called
\* with an empty literal for a key that holds a value.
C5_Witness ==
    /\ last.op = "view_func"
    /\ last.out.invoked # <<>>
    /\ DOMAIN registry = Keys
    /\ \E k \in Keys : called[k] = Literal(<<>>) /\ registry[k] # Literal(<<>>)

---------------------------------------------------------------------------
(* The claim about send (SpecSend).                                        *)

\* C8: send of a text with a token and a to_user makes exactly one POST to
\* the send URL, with the body {to_user, type: "text", text: {content}}, and
\* returns the response; without the token or the to_user it raises the
\* configuration error and makes no request.
C8_SendPostsOnce ==
    last.op = "send" =>
        /\ (Truthy(token) /\ Truthy(last.args.to_user) /\ last.args.type = T_text) =>
              /\ last.out.raised = ""
              /\ Len(last.out.posted) = 1
              /\ last.out.posted[1].url = SendUrl(token)
              /\ last.out.posted[1].data["to_user"] = last.args.to_user
              /\ last.out.posted[1].data["type"] = T_text
        /\ (~Truthy(token) \/ ~Truthy(last.args.to_user)) =>
              /\ last.out.raised = "RuntimeError"
              /\ last.out.posted = <<>>

=============================================================================
